---- MODULE Spec2Model ----
(***************************************************************************)
(* Event routing and proxy mediation of the broadcast socket server        *)
(* (createSocketServer in dist/server.js).  Connections are tagged with a  *)
(* channel at the handshake; lifecycle events are either handled by the    *)
(* default welcome / broadcast path or round-tripped through an external   *)
(* HTTP mediator (config.proxy).                                           *)
(***************************************************************************)
EXTENDS Naturals, Sequences, FiniteSets

\* ------------------------------------------------------------------ bounds
MaxEvents == 2    \* client "message" events and POST /proxy requests in all
MaxClock == 1     \* largest value Date.now() returns

\* ------------------------------------------------------------------ values
Sockets == {"s1", "s2"}          \* socket.id of each physical connection
Channels == {"a", "b"}
NoChannel == ""                        \* absent or empty query parameter: !channel
Tags == Channels \cup {NoChannel}
Data == {"d1"}                         \* payloads of client "message" events
Bodies == {"b1"}                       \* JSON bodies of POST /proxy
Undefined == "undefined"               \* an absent field

ChannelMessage(data, timestamp, sender) ==
    [data |-> data, timestamp |-> timestamp, sender |-> sender]

\* The payload's timestamp field is not modelled: nothing reads it back.
ProxyEventPayload(event, channel, socketId, data) ==
    [event |-> event, channel |-> channel, socketId |-> socketId, data |-> data]

\* Messages a mediator puts in its replies; their timestamp is the mediator's.
MsgM == ChannelMessage("M", 0, "server")
MsgA == ChannelMessage("A", 0, "server")
MsgB == ChannelMessage("B", 0, "server")

\* A parsed 2xx JSON reply.  json = "null" is the body `null`; message is the
\* optional `message` field (a sequence of length 0 or 1); messagesKind tells
\* whether `messages` is absent, an array or another truthy value (5, {}).
ProxyEventResponse(json, message, messagesKind, messages) ==
    [json |-> json, message |-> message, messagesKind |-> messagesKind,
     messages |-> messages]

NoOpinion == ProxyEventResponse("null", <<>>, "absent", <<>>)

JsonBodies ==
    { NoOpinion,
      ProxyEventResponse("object", <<>>, "absent", <<>>),
      ProxyEventResponse("object", <<MsgM>>, "absent", <<>>),
      ProxyEventResponse("object", <<>>, "array", <<MsgA, MsgB>>),
      ProxyEventResponse("object", <<MsgM>>, "array", <<MsgB, MsgA>>),
      ProxyEventResponse("object", <<MsgM>>, "array", <<>>),
      ProxyEventResponse("object", <<>>, "other", <<>>) }

\* What the HTTP call to the mediator can come to: fetch rejects ("throw"),
\* the status is not 2xx ("notok", whatever JSON the error body holds),
\* response.json() rejects ("badjson"), or a 2xx reply parses ("ok").
Outcomes ==
    [net : {"throw", "badjson"}, body : {NoOpinion}]
      \cup [net : {"ok", "notok"}, body : JsonBodies]

\* ------------------------------------------------------------------ state
VARIABLES
    proxy,       \* config.proxy is set (immutable after construction)
    now,         \* the last Date.now() put in a ChannelMessage
    conn,        \* transport state of each socket: "none", "open", "closed"
    channelOf,   \* socket.handshake.query.channel of each socket
    rooms,       \* the adapter's rooms: channel -> member sockets
    handlers,    \* socket.on("message") / socket.on("disconnect") registered
    inbox,       \* ChannelMessages each client has received, in order
    dropped,     \* a message was emitted to the socket after it closed
    sent,        \* number of "message" events each client has emitted
    dispatched,  \* the ProxyEventPayloads POSTed for each socket, in order
    pending,     \* per socket, the indices of dispatched a handler is awaiting
    fetches,     \* per socket, the number of fetch() calls sendToProxy made
    res,         \* response to the last POST /proxy
    events,      \* number of client "message" events and POST /proxy
                 \* requests handled so far
    answered,    \* history: per socket, the index in dispatched of the latest
                 \* mediation whose reply was emitted to the open socket
    uncaught     \* an async handler rejected with an error nothing catches
                 \* (the runtime may end the process then; the model goes on,
                 \* and a behaviour that stops there is a prefix of one that
                 \* does not)

vars == <<proxy, now, conn, channelOf, rooms, handlers, inbox, dropped, sent,
          dispatched, pending, fetches, res, events, answered, uncaught>>

NoResponse == [status |-> 0, success |-> FALSE]

Init ==
    /\ proxy \in BOOLEAN
    /\ now = 0
    /\ conn = [s \in Sockets |-> "none"]
    /\ channelOf = [s \in Sockets |-> NoChannel]
    /\ rooms = [c \in Channels |-> {}]
    /\ handlers = [s \in Sockets |-> FALSE]
    /\ inbox = [s \in Sockets |-> <<>>]
    /\ dropped = [s \in Sockets |-> FALSE]
    /\ sent = [s \in Sockets |-> 0]
    /\ dispatched = [s \in Sockets |-> <<>>]
    /\ pending = [s \in Sockets |-> {}]
    /\ fetches = [s \in Sockets |-> 0]
    /\ res = NoResponse
    /\ events = 0
    /\ answered = [s \in Sockets |-> 0]
    /\ uncaught = FALSE

\* ------------------------------------------------------------------ helpers
WelcomeText(channel) == "Welcome to channel: " \o channel

WelcomeMessage(channel, t) == ChannelMessage(WelcomeText(channel), t, "system")

\* the values Date.now() can return next: time does not run backwards
Clock == {t \in now..(now + 1) : t <= MaxClock}

\* socket.join(channel)
Join(s, channel) == [rooms EXCEPT ![channel] = @ \cup {s}]

\* the transport's removal of a closed socket from every room
LeaveAll(s) == [c \in Channels |-> rooms[c] \ {s}]

\* socket.to(channel).emit: the room without the sender
RoomEmitExceptSender(channel, message) ==
    [t \in Sockets |->
        IF t \in rooms[channel] \ {message.sender}
        THEN Append(inbox[t], message) ELSE inbox[t]]

\* io.emit: every connected socket, whatever its room
RoomEmitAll(channel, message) ==
    [t \in Sockets |->
        IF conn[t] = "open" THEN Append(inbox[t], message) ELSE inbox[t]]

\* io.to(channel).emit("message", message): every member of the room
RoomEmit(channel, message) ==
    [t \in Sockets |->
        IF t \in rooms[channel] THEN Append(inbox[t], message) ELSE inbox[t]]

\* sendToProxy without the `!response.ok` check: an error body is parsed and
\* returned like a reply
SendToProxyResultIgnoresStatus(outcome) ==
    IF outcome.net \in {"ok", "notok"} THEN outcome.body ELSE NoOpinion

\* sendToProxy's result: every failure is caught and becomes null
SendToProxyResult(outcome) ==
    IF outcome.net = "ok" THEN outcome.body ELSE NoOpinion

\* the values an awaited sendToProxy can resolve to
Responses == {SendToProxyResult(o) : o \in Outcomes}

\* `for (const message of proxyResponse.messages)` over a non-iterable throws
Throws(response) ==
    /\ response.json # "null"
    /\ response.messagesKind = "other"

\* the two branches in the other order: `message` before `messages`
ResponseMessagesSingleFirst(response) ==
    IF response.json = "null" THEN <<>>
    ELSE IF response.message # <<>> THEN response.message
    ELSE IF response.messagesKind # "absent" THEN response.messages
    ELSE <<>>

\* if (proxyResponse?.messages) ... else if (proxyResponse?.message) ...
ResponseMessages(response) ==
    IF response.json = "null" THEN <<>>
    ELSE IF response.messagesKind # "absent" THEN response.messages
    ELSE IF response.message # <<>> THEN response.message
    ELSE <<>>

\* `await sendToProxy(payload)`: the payload is POSTed and the handler waits
Dispatch(s, payload) ==
    /\ dispatched' = [dispatched EXCEPT ![s] = Append(@, payload)]
    /\ pending' = [pending EXCEPT ![s] = @ \cup {Len(dispatched[s]) + 1}]
    /\ fetches' = [fetches EXCEPT ![s] = @ + 1]

\* `sendToProxy(payload)` unawaited: the payload is POSTed, nothing waits for it
DispatchDetached(s, payload) ==
    /\ dispatched' = [dispatched EXCEPT ![s] = Append(@, payload)]
    /\ fetches' = [fetches EXCEPT ![s] = @ + 1]
    /\ UNCHANGED pending

\* io.to(channel).emit in place of socket.emit
SocketEmitRoom(s, messages) ==
    /\ inbox' = [t \in Sockets |->
                    IF t \in rooms[channelOf[s]] THEN inbox[t] \o messages
                    ELSE inbox[t]]
    /\ UNCHANGED dropped

\* socket.emit("message", m) for each m of messages; packets written to a
\* closed socket are discarded
SocketEmit(s, messages) ==
    IF conn[s] = "open"
    THEN /\ inbox' = [inbox EXCEPT ![s] = @ \o messages]
         /\ UNCHANGED dropped
    ELSE /\ dropped' = [dropped EXCEPT ![s] = @ \/ messages # <<>>]
         /\ UNCHANGED inbox

\* ------------------------------------------------------------------ actions
\* the channel check without its `return`: the handler goes on after
\* socket.disconnect()
ConnectRejectedNoReturn(s) ==
    /\ conn[s] = "none"
    /\ conn' = [conn EXCEPT ![s] = "closed"]
    /\ IF proxy
       THEN /\ Dispatch(s, ProxyEventPayload("connection", NoChannel, s,
                                              Undefined))
            /\ UNCHANGED dropped
       ELSE /\ dropped' = [dropped EXCEPT ![s] = TRUE]
            /\ UNCHANGED <<dispatched, pending, fetches>>
    /\ UNCHANGED <<proxy, answered, now, channelOf, rooms, handlers, inbox,
                   sent, res, uncaught, events>>

\* io.on("connection") with no channel: socket.disconnect() and return
ConnectRejected(s) ==
    /\ conn[s] = "none"
    /\ conn' = [conn EXCEPT ![s] = "closed"]
    /\ UNCHANGED <<proxy, answered, now, channelOf, rooms, handlers, inbox,
                   dropped, sent, dispatched, fetches, pending, res, uncaught,
                   events>>

\* socket.join moved after the await: the payload is dispatched by a socket
\* that is not in its room yet
ConnectMediatedJoinsLate(s, channel) ==
    /\ conn[s] = "none"
    /\ proxy
    /\ conn' = [conn EXCEPT ![s] = "open"]
    /\ channelOf' = [channelOf EXCEPT ![s] = channel]
    /\ Dispatch(s, ProxyEventPayload("connection", channel, s, Undefined))
    /\ UNCHANGED <<proxy, answered, now, rooms, handlers, inbox, dropped,
                   sent, res, uncaught, events>>

\* the listeners registered ahead of the awaited `connection` dispatch
ConnectMediatedListensFirst(s, channel) ==
    /\ conn[s] = "none"
    /\ proxy
    /\ conn' = [conn EXCEPT ![s] = "open"]
    /\ channelOf' = [channelOf EXCEPT ![s] = channel]
    /\ rooms' = Join(s, channel)
    /\ handlers' = [handlers EXCEPT ![s] = TRUE]
    /\ Dispatch(s, ProxyEventPayload("connection", channel, s, Undefined))
    /\ UNCHANGED <<proxy, answered, now, inbox, dropped, sent, res, uncaught,
                   events>>

\* a connection handler that waits for every mediation in flight before it
\* starts its own
ConnectMediatedOneAtATime(s, channel) ==
    /\ conn[s] = "none"
    /\ proxy
    /\ \A u \in Sockets : pending[u] = {}
    /\ conn' = [conn EXCEPT ![s] = "open"]
    /\ channelOf' = [channelOf EXCEPT ![s] = channel]
    /\ rooms' = Join(s, channel)
    /\ Dispatch(s, ProxyEventPayload("connection", channel, s, Undefined))
    /\ UNCHANGED <<proxy, answered, now, handlers, inbox, dropped, sent, res,
                   uncaught, events>>

\* io.on("connection"), config.proxy set: join, then await sendToProxy
ConnectMediated(s, channel) ==
    /\ conn[s] = "none"
    /\ proxy
    /\ conn' = [conn EXCEPT ![s] = "open"]
    /\ channelOf' = [channelOf EXCEPT ![s] = channel]
    /\ rooms' = Join(s, channel)
    /\ Dispatch(s, ProxyEventPayload("connection", channel, s, Undefined))
    /\ UNCHANGED <<proxy, answered, now, handlers, inbox, dropped, sent, res,
                   uncaught, events>>

\* the welcome emitted to the room in place of the socket
ConnectDefaultWelcomeRoom(s, channel, t) ==
    /\ conn[s] = "none"
    /\ ~proxy
    /\ now' = t
    /\ conn' = [conn EXCEPT ![s] = "open"]
    /\ channelOf' = [channelOf EXCEPT ![s] = channel]
    /\ rooms' = Join(s, channel)
    /\ inbox' = [u \in Sockets |->
                    IF u \in Join(s, channel)[channel]
                    THEN Append(inbox[u], WelcomeMessage(channel, t))
                    ELSE inbox[u]]
    /\ handlers' = [handlers EXCEPT ![s] = TRUE]
    /\ UNCHANGED <<proxy, answered, dropped, sent, dispatched, fetches,
                   pending, res, uncaught, events>>

\* the welcome put off to a later turn of the event loop: the join alone
ConnectDefaultJoinOnly(s, channel, t) ==
    /\ conn[s] = "none"
    /\ ~proxy
    /\ now' = t
    /\ conn' = [conn EXCEPT ![s] = "open"]
    /\ channelOf' = [channelOf EXCEPT ![s] = channel]
    /\ rooms' = Join(s, channel)
    /\ handlers' = [handlers EXCEPT ![s] = TRUE]
    /\ UNCHANGED <<proxy, answered, inbox, dropped, sent, dispatched, fetches,
                   pending, res, uncaught, events>>

\* io.on("connection"), no proxy: join, welcome, register the handlers
ConnectDefault(s, channel, t) ==
    /\ conn[s] = "none"
    /\ ~proxy
    /\ now' = t
    /\ conn' = [conn EXCEPT ![s] = "open"]
    /\ channelOf' = [channelOf EXCEPT ![s] = channel]
    /\ rooms' = Join(s, channel)
    /\ inbox' = [inbox EXCEPT ![s] = Append(@, WelcomeMessage(channel, t))]
    /\ handlers' = [handlers EXCEPT ![s] = TRUE]
    /\ UNCHANGED <<proxy, answered, dropped, sent, dispatched, fetches,
                   pending, res, uncaught, events>>

\* a client "message" event before socket.on("message") ran: no listener
InboundNoListener(s, data) ==
    /\ conn[s] = "open"
    /\ events < MaxEvents
    /\ ~handlers[s]
    /\ events' = events + 1
    /\ sent' = [sent EXCEPT ![s] = @ + 1]
    /\ UNCHANGED <<proxy, answered, now, conn, channelOf, rooms, handlers,
                   inbox, dropped, dispatched, fetches, pending, res,
                   uncaught>>

\* the message handler with the broadcast ahead of its `if (config.proxy)`
InboundMediatedBroadcasts(s, data) ==
    /\ conn[s] = "open"
    /\ events < MaxEvents
    /\ handlers[s]
    /\ proxy
    /\ events' = events + 1
    /\ sent' = [sent EXCEPT ![s] = @ + 1]
    /\ Dispatch(s, ProxyEventPayload("message", channelOf[s], s, data))
    /\ inbox' = RoomEmit(channelOf[s], ChannelMessage(data, now, s))
    /\ UNCHANGED <<proxy, answered, now, conn, channelOf, rooms, handlers,
                   dropped, res, uncaught>>

\* socket.on("message"), config.proxy set: await sendToProxy
InboundMediated(s, data) ==
    /\ conn[s] = "open"
    /\ events < MaxEvents
    /\ handlers[s]
    /\ proxy
    /\ events' = events + 1
    /\ sent' = [sent EXCEPT ![s] = @ + 1]
    /\ Dispatch(s, ProxyEventPayload("message", channelOf[s], s, data))
    /\ UNCHANGED <<proxy, answered, now, conn, channelOf, rooms, handlers,
                   inbox, dropped, res, uncaught>>

\* the broadcast stamped with a Date.now() read at an earlier event
InboundDefaultStaleTimestamp(s, data, t) ==
    /\ conn[s] = "open"
    /\ events < MaxEvents
    /\ handlers[s]
    /\ ~proxy
    /\ events' = events + 1
    /\ sent' = [sent EXCEPT ![s] = @ + 1]
    /\ now' = t
    /\ inbox' = RoomEmit(channelOf[s], ChannelMessage(data, now, s))
    /\ UNCHANGED <<proxy, answered, conn, channelOf, rooms, handlers, dropped,
                   dispatched, fetches, pending, res, uncaught>>

\* socket.on("message"), no proxy: broadcast to the channel room
InboundDefault(s, data, t) ==
    /\ conn[s] = "open"
    /\ events < MaxEvents
    /\ handlers[s]
    /\ ~proxy
    /\ events' = events + 1
    /\ sent' = [sent EXCEPT ![s] = @ + 1]
    /\ now' = t
    /\ inbox' = RoomEmit(channelOf[s], ChannelMessage(data, t, s))
    /\ UNCHANGED <<proxy, answered, conn, channelOf, rooms, handlers, dropped,
                   dispatched, fetches, pending, res, uncaught>>

\* the disconnect handler awaiting its sendToProxy
TransportCloseAwaiting(s) ==
    /\ conn[s] = "open"
    /\ conn' = [conn EXCEPT ![s] = "closed"]
    /\ rooms' = LeaveAll(s)
    /\ IF handlers[s] /\ proxy
       THEN Dispatch(s, ProxyEventPayload("disconnect", channelOf[s], s,
                                          Undefined))
       ELSE UNCHANGED <<dispatched, pending, fetches>>
    /\ UNCHANGED <<proxy, answered, now, channelOf, handlers, inbox, dropped,
                   sent, res, uncaught, events>>

\* the transport closes the socket; socket.on("disconnect") runs if registered
TransportClose(s) ==
    /\ conn[s] = "open"
    /\ conn' = [conn EXCEPT ![s] = "closed"]
    /\ rooms' = LeaveAll(s)
    /\ IF handlers[s] /\ proxy
       THEN DispatchDetached(s, ProxyEventPayload("disconnect", channelOf[s],
                                                  s, Undefined))
       ELSE UNCHANGED <<dispatched, pending, fetches>>
    /\ UNCHANGED <<proxy, answered, now, channelOf, handlers, inbox, dropped,
                   sent, res, uncaught, events>>

\* the connection handler falling back to the welcome on an empty answer
SettleConnectionFallback(s, r, response) ==
    /\ r \in pending[s]
    /\ dispatched[s][r].event = "connection"
    /\ pending' = [pending EXCEPT ![s] = @ \ {r}]
    /\ IF Throws(response)
       THEN /\ uncaught' = TRUE
            /\ UNCHANGED <<inbox, dropped, handlers>>
       ELSE /\ SocketEmit(s, IF ResponseMessages(response) = <<>>
                             THEN <<WelcomeMessage(channelOf[s], now)>>
                             ELSE ResponseMessages(response))
            /\ handlers' = [handlers EXCEPT ![s] = TRUE]
            /\ UNCHANGED uncaught
    /\ answered' = IF Throws(response) \/ conn[s] # "open"
                       \/ ResponseMessages(response) = <<>>
                   THEN answered ELSE [answered EXCEPT ![s] = r]
    /\ UNCHANGED <<proxy, now, conn, channelOf, rooms, sent, dispatched,
                   fetches, res, events>>

\* the connection handler taking the socket out of its room when the
\* mediator has nothing to say
SettleConnectionLeavesOnSilence(s, r, response) ==
    /\ r \in pending[s]
    /\ dispatched[s][r].event = "connection"
    /\ pending' = [pending EXCEPT ![s] = @ \ {r}]
    /\ rooms' = IF ResponseMessages(response) = <<>> THEN LeaveAll(s)
              ELSE rooms
    /\ IF Throws(response)
       THEN /\ uncaught' = TRUE
            /\ UNCHANGED <<inbox, dropped, handlers>>
       ELSE /\ SocketEmit(s, ResponseMessages(response))
            /\ handlers' = [handlers EXCEPT ![s] = TRUE]
            /\ UNCHANGED uncaught
    /\ answered' = IF Throws(response) \/ conn[s] # "open"
                       \/ ResponseMessages(response) = <<>>
                   THEN answered ELSE [answered EXCEPT ![s] = r]
    /\ UNCHANGED <<proxy, now, conn, channelOf, sent, dispatched, fetches,
                   res, events>>

\* the awaited sendToProxy of io.on("connection") settles
SettleConnection(s, r, response) ==
    /\ r \in pending[s]
    /\ dispatched[s][r].event = "connection"
    /\ pending' = [pending EXCEPT ![s] = @ \ {r}]
    /\ IF Throws(response)
       THEN /\ uncaught' = TRUE
            /\ UNCHANGED <<inbox, dropped, handlers>>
       ELSE /\ SocketEmit(s, ResponseMessages(response))
            /\ handlers' = [handlers EXCEPT ![s] = TRUE]
            /\ UNCHANGED uncaught
    /\ answered' = IF Throws(response) \/ conn[s] # "open"
                       \/ ResponseMessages(response) = <<>>
                   THEN answered ELSE [answered EXCEPT ![s] = r]
    /\ UNCHANGED <<proxy, now, conn, channelOf, rooms, sent, dispatched,
                   fetches, res, events>>

\* the message handler running the default broadcast as well
SettleMessageAndBroadcast(s, r, response) ==
    /\ r \in pending[s]
    /\ dispatched[s][r].event = "message"
    /\ pending' = [pending EXCEPT ![s] = @ \ {r}]
    /\ IF Throws(response)
       THEN /\ uncaught' = TRUE
            /\ UNCHANGED <<inbox, dropped>>
       ELSE /\ inbox' = [u \in Sockets |->
                    (IF u = s /\ conn[s] = "open"
                     THEN inbox[u] \o ResponseMessages(response)
                     ELSE inbox[u])
                    \o (IF u \in rooms[channelOf[s]]
                        THEN <<ChannelMessage(dispatched[s][r].data, now, s)>>
                        ELSE <<>>)]
            /\ UNCHANGED <<dropped, uncaught>>
    /\ answered' = IF Throws(response) \/ conn[s] # "open"
                       \/ ResponseMessages(response) = <<>>
                   THEN answered ELSE [answered EXCEPT ![s] = r]
    /\ UNCHANGED <<proxy, now, conn, channelOf, rooms, handlers, sent,
                   dispatched, fetches, res, events>>

\* sendToProxy POSTing a second time when the first attempt failed
SettleMessageRetries(s, r, response) ==
    /\ r \in pending[s]
    /\ dispatched[s][r].event = "message"
    /\ pending' = [pending EXCEPT ![s] = @ \ {r}]
    /\ fetches' = IF response = NoOpinion
                  THEN [fetches EXCEPT ![s] = @ + 1] ELSE fetches
    /\ IF Throws(response)
       THEN /\ uncaught' = TRUE
            /\ UNCHANGED <<inbox, dropped>>
       ELSE /\ SocketEmit(s, ResponseMessages(response))
            /\ UNCHANGED uncaught
    /\ answered' = IF Throws(response) \/ conn[s] # "open"
                       \/ ResponseMessages(response) = <<>>
                   THEN answered ELSE [answered EXCEPT ![s] = r]
    /\ UNCHANGED <<proxy, now, conn, channelOf, rooms, handlers, sent,
                   dispatched, res, events>>

\* the awaited sendToProxy of socket.on("message") settles
SettleMessage(s, r, response) ==
    /\ r \in pending[s]
    /\ dispatched[s][r].event = "message"
    /\ pending' = [pending EXCEPT ![s] = @ \ {r}]
    /\ IF Throws(response)
       THEN /\ uncaught' = TRUE
            /\ UNCHANGED <<inbox, dropped>>
       ELSE /\ SocketEmit(s, ResponseMessages(response))
            /\ UNCHANGED uncaught
    /\ answered' = IF Throws(response) \/ conn[s] # "open"
                       \/ ResponseMessages(response) = <<>>
                   THEN answered ELSE [answered EXCEPT ![s] = r]
    /\ UNCHANGED <<proxy, now, conn, channelOf, rooms, handlers, sent,
                   dispatched, fetches, res,
                   events>>

\* the unawaited sendToProxy of socket.on("disconnect") settles: its result is
\* discarded and no handler resumes
SettleDisconnect(s, r) ==
    /\ r \in DOMAIN dispatched[s]
    /\ dispatched[s][r].event = "disconnect"
    /\ UNCHANGED vars

\* the channel check answering 400 and emitting all the same, to everyone
ProxyPostInvalidBroadcasts(body) ==
    /\ events < MaxEvents
    /\ events' = events + 1
    /\ res' = [status |-> 400, success |-> FALSE]
    /\ inbox' = RoomEmitAll(NoChannel, ChannelMessage(body, now, "proxy"))
    /\ UNCHANGED <<proxy, answered, now, conn, channelOf, rooms, handlers,
                   dropped, sent, dispatched, fetches, pending, uncaught>>

\* POST /proxy without a channel
ProxyPostInvalid(body) ==
    /\ events < MaxEvents
    /\ events' = events + 1
    /\ res' = [status |-> 400, success |-> FALSE]
    /\ UNCHANGED <<proxy, answered, now, conn, channelOf, rooms, handlers,
                   inbox, dropped, sent, dispatched, fetches, pending,
                   uncaught>>

\* POST /proxy answering 404 for a channel without members
ProxyPostNeedsMembers(channel, body, t) ==
    /\ events < MaxEvents
    /\ events' = events + 1
    /\ now' = t
    /\ inbox' = RoomEmit(channel, ChannelMessage(body, t, "proxy"))
    /\ res' = IF rooms[channel] = {}
              THEN [status |-> 404, success |-> FALSE]
              ELSE [status |-> 200, success |-> TRUE]
    /\ UNCHANGED <<proxy, answered, conn, channelOf, rooms, handlers, dropped,
                   sent, dispatched, fetches, pending, uncaught>>

\* POST /proxy?channel=X
ProxyPost(channel, body, t) ==
    /\ events < MaxEvents
    /\ events' = events + 1
    /\ now' = t
    /\ inbox' = RoomEmit(channel, ChannelMessage(body, t, "proxy"))
    /\ res' = [status |-> 200, success |-> TRUE]
    /\ UNCHANGED <<proxy, answered, conn, channelOf, rooms, handlers, dropped,
                   sent, dispatched, fetches, pending, uncaught>>

\* GET /health
Health == UNCHANGED vars

Next ==
    \/ \E s \in Sockets : ConnectRejected(s)
    \/ \E s \in Sockets, c \in Channels : ConnectMediated(s, c)
    \/ \E s \in Sockets, c \in Channels, t \in Clock : ConnectDefault(s, c, t)
    \/ \E s \in Sockets, d \in Data : InboundNoListener(s, d)
    \/ \E s \in Sockets, d \in Data : InboundMediated(s, d)
    \/ \E s \in Sockets, d \in Data, t \in Clock : InboundDefault(s, d, t)
    \/ \E s \in Sockets : TransportClose(s)
    \/ \E s \in Sockets : \E r \in pending[s] : \E p \in Responses :
          SettleConnection(s, r, p)
    \/ \E s \in Sockets : \E r \in pending[s] : \E p \in Responses :
          SettleMessage(s, r, p)
    \/ \E s \in Sockets : \E r \in DOMAIN dispatched[s] :
          SettleDisconnect(s, r)
    \/ \E b \in Bodies : ProxyPostInvalid(b)
    \/ \E c \in Channels, b \in Bodies, t \in Clock : ProxyPost(c, b, t)
    \/ Health

Spec == Init /\ [][Next]_vars

\* ------------------------------------------------------------------ claims
\* the accepted, not yet disconnected connections whose tag is channel
Members(channel) == {u \in Sockets : conn[u] = "open" /\ channelOf[u] = channel}

Has(box, sender) == \E i \in DOMAIN box : box[i].sender = sender

Welcomes(box) == {i \in DOMAIN box : box[i].sender = "system"}

OnlyMessage == ProxyEventResponse("object", <<MsgM>>, "absent", <<>>)
OnlyMessages == ProxyEventResponse("object", <<>>, "array", <<MsgA, MsgB>>)
BothFields == ProxyEventResponse("object", <<MsgM>>, "array", <<MsgB, MsgA>>)

\* What socket s and everyone else hold after the router sent `messages` to s
\* alone: s gets them appended if its transport is still open, nobody else
\* gets anything.
DeliveredOnlyTo(s, messages) ==
    /\ inbox'[s] = IF conn[s] = "open" THEN inbox[s] \o messages ELSE inbox[s]
    /\ \A u \in Sockets \ {s} : inbox'[u] = inbox[u]

\* C1: with no mediator, an inbound message from connection s of channel X is
\* appended exactly once, as {data: payload, sender: s}, to the inbox of every
\* connection that is a member of X at that moment, s included, and to no other.
C1_DefaultBroadcast ==
    [][events' # events =>
       \A s \in Sockets, d \in Data, t \in Clock :
          InboundDefault(s, d, t) =>
            /\ s \in Members(channelOf[s])
            /\ \A u \in Sockets :
                 inbox'[u] = IF u \in Members(channelOf[s])
                             THEN Append(inbox[u], ChannelMessage(d, t, s))
                             ELSE inbox[u]]_vars

\* two connections of one channel both hold a message sent by one of them
C1_Witness ==
    /\ ~proxy
    /\ \E s \in Sockets : \A u \in Sockets : Has(inbox[u], s)

\* C2: a broadcast to channel X, by a default-mode inbound message or by
\* POST /proxy, changes the inbox of no connection whose channel tag is not X.
C2_ChannelIsolation ==
    [][events' # events =>
       /\ \A s \in Sockets, d \in Data, t \in Clock :
            InboundDefault(s, d, t) =>
              \A u \in Sockets :
                 channelOf[u] # channelOf[s] => inbox'[u] = inbox[u]
       /\ \A c \in Channels, b \in Bodies, t \in Clock :
            ProxyPost(c, b, t) =>
              \A u \in Sockets : channelOf[u] # c => inbox'[u] = inbox[u]]_vars

\* a connection received a POST /proxy broadcast that was made after a
\* connection of the other channel had been welcomed and while it was open
C2_Witness ==
    \E s \in Sockets, u \in Sockets :
        /\ conn[s] = "open" /\ conn[u] = "open"
        /\ channelOf[s] # channelOf[u]
        /\ inbox[u] # <<>>
        /\ \E i \in DOMAIN inbox[s] :
              /\ inbox[s][i].sender = "proxy"
              /\ inbox[s][i].timestamp > inbox[u][1].timestamp
        /\ ~Has(inbox[u], "proxy")

\* C3: with no mediator, a connection that connected with a channel holds
\* exactly one welcome, {data: "Welcome to channel: <its channel>", sender:
\* "system"}; a connection that did not holds none.
C3_OneWelcome ==
    ~proxy =>
      \A s \in Sockets :
         IF conn[s] # "none" /\ channelOf[s] \in Channels
         THEN /\ Cardinality(Welcomes(inbox[s])) = 1
              /\ \A i \in Welcomes(inbox[s]) :
                    inbox[s][i].data = WelcomeText(channelOf[s])
         ELSE Welcomes(inbox[s]) = {}

\* two connections joined the same channel one after the other
C3_Witness ==
    /\ ~proxy
    /\ \E c \in Channels : Members(c) = Sockets
    /\ \E s \in Sockets : Len(inbox[s]) > 1

\* C4: when the mediator answers a `connection` event with {message: M}, M
\* alone is sent to the connecting socket and no other connection receives
\* anything.
C4_ConnectionSingleMessage ==
    [][pending' # pending =>
       \A s \in Sockets : \A r \in pending[s] :
          SettleConnection(s, r, OnlyMessage) =>
             DeliveredOnlyTo(s, <<MsgM>>)]_vars

\* a connection holds M while another open connection of its channel holds
\* nothing
C4_Witness ==
    \E s \in Sockets, u \in Sockets :
        /\ inbox[s] = <<MsgM>> /\ sent[s] = 0
        /\ u \in Members(channelOf[s]) /\ u # s
        /\ inbox[u] = <<>>

\* C5: in mediated mode a `connection` event the mediator leaves unanswered
\* (request failed, non-2xx, malformed body, `null` or {}) delivers nothing,
\* and no connection ever holds the default welcome.
NoContent ==
    {SendToProxyResult(o) : o \in {x \in Outcomes : x.net # "ok"}}
      \cup {NoOpinion, ProxyEventResponse("object", <<>>, "absent", <<>>)}

C5_NoWelcomeWhenMediated ==
    /\ [](proxy => \A s \in Sockets : Welcomes(inbox[s]) = {})
    /\ [][\A s \in Sockets :
             pending'[s] # pending[s] =>
               \A r \in pending[s], p \in NoContent :
                  SettleConnection(s, r, p) =>
                     inbox' = inbox /\ dropped' = dropped]_vars

\* an open connection whose `connection` mediation settled without content
C5_Witness ==
    \E s \in Sockets :
        /\ proxy /\ conn[s] = "open"
        /\ handlers[s] /\ pending[s] = {} /\ sent[s] = 0
        /\ inbox[s] = <<>>

\* C6: when the mediator answers a `message` event with {messages: [A, B]},
\* A then B are sent to the originating socket alone; the inbound data is not
\* broadcast.
C6_MessageSequence ==
    [][pending' # pending =>
       \A s \in Sockets : \A r \in pending[s] :
          SettleMessage(s, r, OnlyMessages) =>
             DeliveredOnlyTo(s, <<MsgA, MsgB>>)]_vars

\* a connection received M for its `connection` event, then A and B for its
\* one message, while another open connection of its channel received nothing
C6_Witness ==
    \E s \in Sockets, u \in Sockets :
        /\ inbox[s] = <<MsgM, MsgA, MsgB>> /\ sent[s] = 1
        /\ Len(dispatched[s]) = 2 /\ pending[s] = {}
        /\ u \in Members(channelOf[s]) /\ u # s
        /\ inbox[u] = <<>>

\* C7: for `connection` and `message` events alike, a response carrying both
\* `message` (M) and a non-empty `messages` ([B, A]) has exactly the entries
\* of `messages` sent to the originating socket; `message` is not sent.
C7_MessagesPriority ==
    [][pending' # pending =>
       \A s \in Sockets : \A r \in pending[s] :
          (SettleConnection(s, r, BothFields)
             \/ SettleMessage(s, r, BothFields))
            => DeliveredOnlyTo(s, <<MsgB, MsgA>>)]_vars

\* a connection received the entries B, A of a two-field response for its
\* `connection` event and again for its message: M is nowhere
C7_Witness ==
    \E s \in Sockets :
        /\ inbox[s] = <<MsgB, MsgA, MsgB, MsgA>>
        /\ pending[s] = {}

\* C8: in mediated mode, whenever the transport closes an accepted
\* connection, a `disconnect` payload is dispatched for it.
C8_DisconnectAlwaysDispatched ==
    [][\A s \in Sockets :
          proxy /\ conn[s] = "open" /\ conn'[s] = "closed" =>
             /\ Len(dispatched'[s]) = Len(dispatched[s]) + 1
             /\ dispatched'[s][Len(dispatched'[s])].event = "disconnect"]_vars

\* C9: a closed connection is out of every room and no handler of it awaits
\* a `disconnect` dispatch, whether or not that dispatch ever settles; the
\* settling of a `disconnect` dispatch delivers nothing.
C9_TeardownNotGated ==
    /\ [](\A s \in Sockets :
            conn[s] = "closed" =>
               /\ \A c \in Channels : s \notin rooms[c]
               /\ \A r \in pending[s] : dispatched[s][r].event # "disconnect")
    /\ [][inbox' # inbox \/ dropped' # dropped =>
             \A s \in Sockets : \A r \in DOMAIN dispatched[s] :
                ~SettleDisconnect(s, r)]_vars

\* a connection was closed and its `disconnect` payload dispatched
C9_Witness ==
    \E s \in Sockets :
        /\ conn[s] = "closed"
        /\ dispatched[s] # <<>>
        /\ dispatched[s][Len(dispatched[s])].event = "disconnect"

\* C10: POST /proxy?channel=X, mediated or not, appends {data: body, sender:
\* "proxy"} to the inbox of every member of X and of nobody else, issues no
\* mediator request, and answers success, members or none.
C10_IngestionBroadcast ==
    [][events' # events =>
       \A c \in Channels, b \in Bodies, t \in Clock :
          ProxyPost(c, b, t) =>
            /\ \A u \in Sockets :
                 inbox'[u] = IF u \in Members(c)
                             THEN Append(inbox[u], ChannelMessage(b, t, "proxy"))
                             ELSE inbox[u]
            /\ dispatched' = dispatched /\ pending' = pending
            /\ res'.status = 200 /\ res'.success]_vars

\* in mediated mode a POST to a channel without members was acknowledged
\* while a connection of the other channel was open
C10_Witness ==
    /\ proxy /\ res.success
    /\ \E s \in Sockets : conn[s] = "open"
    /\ \A s \in Sockets : conn[s] # "closed" /\ ~Has(inbox[s], "proxy")

\* C11: POST /proxy without a channel (absent or empty) answers 400, appends
\* nothing to any inbox, and leaves the rooms and every connection's state
\* (transport, tag, handlers, dispatched and awaited payloads) as they were.
C11_IngestionInvalid ==
    [][events' # events =>
       \A b \in Bodies :
          ProxyPostInvalid(b) =>
            /\ res'.status = 400 /\ ~res'.success
            /\ inbox' = inbox /\ dropped' = dropped
            /\ rooms' = rooms /\ conn' = conn /\ channelOf' = channelOf
            /\ handlers' = handlers
            /\ dispatched' = dispatched /\ pending' = pending]_vars

\* the last POST was refused while both connections were open members of a
\* channel, and no POST ever broadcast anything
C11_Witness ==
    /\ res.status = 400
    /\ \E c \in Channels : Members(c) = Sockets
    /\ \A s \in Sockets : ~Has(inbox[s], "proxy")

\* C12: a connection whose handshake has no channel tag is closed at once: it
\* is in no room, has no handlers, has received nothing (nor was anything
\* emitted to it), and no payload was ever dispatched for it.
C12_NoChannelTerminated ==
    \A s \in Sockets :
       conn[s] # "none" /\ channelOf[s] = NoChannel =>
          /\ conn[s] = "closed"
          /\ \A c \in Channels : s \notin rooms[c]
          /\ ~handlers[s]
          /\ inbox[s] = <<>> /\ ~dropped[s]
          /\ dispatched[s] = <<>> /\ pending[s] = {}

\* in mediated mode a connection without a tag was terminated, and afterwards
\* the other connection, a member of a channel, received a POST broadcast
C12_Witness ==
    \E s \in Sockets, u \in Sockets :
        /\ proxy
        /\ conn[s] = "closed" /\ channelOf[s] = NoChannel
        /\ conn[u] = "open" /\ dispatched[u] # <<>>
        /\ Has(inbox[u], "proxy")

\* C13: a rejected fetch, a non-2xx status and an unparsable body each make
\* sendToProxy return NoOpinion, and a `connection` or `message` mediation
\* that settles so sends nothing to anyone (no welcome, no broadcast) and
\* raises nothing.
Failures == {o \in Outcomes : o.net # "ok"}

FailureResults == {SendToProxyResult(o) : o \in Failures}

C13_FailureIsNoOpinion ==
    [][/\ FailureResults = {NoOpinion}
       /\ pending' # pending =>
            \A s \in Sockets : \A r \in pending[s] \ pending'[s] :
               \A p \in FailureResults :
                  (SettleConnection(s, r, p) \/ SettleMessage(s, r, p))
                    => /\ inbox' = inbox /\ dropped' = dropped
                       /\ uncaught' = uncaught]_vars

\* a connection's `connection` and `message` mediations both settled and
\* neither it nor the other open member of its channel holds anything
C13_Witness ==
    \E s \in Sockets, u \in Sockets :
        /\ proxy /\ conn[s] = "open" /\ sent[s] = 1
        /\ Len(dispatched[s]) = 2 /\ pending[s] = {} /\ ~uncaught
        /\ u \in Members(channelOf[s]) /\ u # s
        /\ inbox[s] = <<>> /\ inbox[u] = <<>>

\* C14: in mediated mode, every "message" event an accepted, open connection
\* emits makes the router dispatch a `message` payload for it, also while its
\* `connection` mediation is still awaiting the mediator.
C14_EveryInboundDispatched ==
    [][\A s \in Sockets :
          proxy /\ conn[s] = "open" /\ sent'[s] = sent[s] + 1 =>
             /\ Len(dispatched'[s]) = Len(dispatched[s]) + 1
             /\ dispatched'[s][Len(dispatched'[s])].event = "message"]_vars

\* C15: a handler of a connection that dispatches to the mediator (for an
\* inbound message or for the disconnect) starts only when no mediation of
\* that connection is still awaiting the mediator; so a connection never has
\* two mediations pending at once.
C15_SerialHandling ==
    [][\A s \in Sockets :
          Len(dispatched'[s]) > Len(dispatched[s]) =>
             /\ pending[s] = {}
             /\ Cardinality(pending'[s]) <= 1]_vars

\* C16: the replies delivered to a connection come in the order of the
\* events they answer: a reply is never delivered to a connection after the
\* reply to a later event of that connection has been.
C16_ResultsInArrivalOrder ==
    [][\A s \in Sockets :
          answered'[s] # answered[s] => answered'[s] > answered[s]]_vars

\* C17: no handler ever rejects with an uncaught error, and once the
\* `connection` mediation of an accepted connection has settled, whatever the
\* reply was, its message and disconnect handlers are in place.
C17_NoHandlerFails ==
    /\ ~uncaught
    /\ \A s \in Sockets :
          proxy /\ dispatched[s] # <<>> /\ 1 \notin pending[s] => handlers[s]

\* C18: a response whose `messages` is an empty array and whose `message` is
\* M has M sent to the originating socket, for `connection` and `message`
\* events alike.
EmptyMessagesAndMessage == ProxyEventResponse("object", <<MsgM>>, "array", <<>>)

C18_EmptyMessagesFallsToMessage ==
    [][pending' # pending =>
       \A s \in Sockets : \A r \in pending[s] :
          (SettleConnection(s, r, EmptyMessagesAndMessage)
             \/ SettleMessage(s, r, EmptyMessagesAndMessage))
            => DeliveredOnlyTo(s, <<MsgM>>)]_vars

\* C19: in mediated mode no inbox ever holds a message whose sender is a
\* connection; an inbound message changes no inbox when it arrives; and when
\* the mediation of a message settles, whatever the outcome, the inbox of
\* every other connection is unchanged and the sender's grows by nothing, by
\* the reply's `message` or by the reply's `messages`.
Supplied ==
    {<<>>} \cup {p.message : p \in Responses} \cup {p.messages : p \in Responses}

C19_MediatedAllOrNothing ==
    /\ [](proxy =>
            \A u \in Sockets : \A i \in DOMAIN inbox[u] :
               inbox[u][i].sender \notin Sockets)
    /\ [][/\ proxy /\ sent' # sent => inbox' = inbox
          /\ pending' # pending =>
               \A s \in Sockets : \A r \in pending[s] \ pending'[s] :
                  dispatched[s][r].event = "message" =>
                     /\ \A u \in Sockets \ {s} : inbox'[u] = inbox[u]
                     /\ \E m \in Supplied : inbox'[s] = inbox[s] \o m]_vars

\* the reply to a connection's one message was delivered to it, M alone, while
\* the other member of its channel, also accepted, holds nothing
C19_Witness ==
    \E s \in Sockets, u \in Sockets :
        /\ proxy /\ sent[s] = 1 /\ answered[s] = 2 /\ pending[s] = {}
        /\ inbox[s] = <<MsgM>>
        /\ u \in Members(channelOf[s]) /\ u # s /\ handlers[u]
        /\ inbox[u] = <<>>

\* C20: while a mediation of one connection is awaiting the mediator, every
\* other connection can still connect, send, be answered and disconnect,
\* POST /proxy is still served, and its broadcast reaches every member of the
\* channel.
C20_LatencyIsolated ==
    /\ [](\A s \in Sockets :
            pending[s] # {} =>
              /\ \A u \in Sockets \ {s} :
                   /\ conn[u] = "none" =>
                         \A c \in Channels : ENABLED ConnectMediated(u, c)
                   /\ conn[u] = "open" => ENABLED TransportClose(u)
                   /\ conn[u] = "open" /\ handlers[u] /\ events < MaxEvents =>
                         \A d \in Data : ENABLED InboundMediated(u, d)
                   /\ \A r \in pending[u], p \in Responses :
                         ENABLED (SettleConnection(u, r, p)
                                    \/ SettleMessage(u, r, p))
              /\ events < MaxEvents =>
                   \A c \in Channels, b \in Bodies, t \in Clock :
                      ENABLED ProxyPost(c, b, t))
    /\ [][events' # events =>
          \A c \in Channels, b \in Bodies, t \in Clock :
             (\E s \in Sockets : pending[s] # {}) /\ ProxyPost(c, b, t) =>
                \A u \in Members(c) :
                   inbox'[u] = Append(inbox[u],
                                      ChannelMessage(b, t, "proxy"))]_vars

\* while the `connection` mediation of one connection is still pending, the
\* other connection was accepted, sent a message, got its reply and closed,
\* and a POST broadcast reached the waiting connection
C20_Witness ==
    \E s \in Sockets, u \in Sockets :
        /\ 1 \in pending[s] /\ Has(inbox[s], "proxy")
        /\ u # s /\ conn[u] = "closed"
        /\ sent[u] = 1 /\ answered[u] = 2 /\ Len(dispatched[u]) = 3

\* C21: an open connection with a mediation pending (its `connection` one
\* from the moment the payload is dispatched, or a `message` one) is in the
\* room of its channel, and a POST /proxy to that channel made meanwhile is
\* appended to its inbox.
C21_MemberWhileMediating ==
    /\ [](\A s \in Sockets :
            pending[s] # {} /\ conn[s] = "open" =>
               s \in rooms[channelOf[s]])
    /\ [][events' # events =>
          \A c \in Channels, b \in Bodies, t \in Clock :
             ProxyPost(c, b, t) =>
               \A s \in Sockets :
                  pending[s] # {} /\ conn[s] = "open" /\ channelOf[s] = c =>
                     inbox'[s] = Append(inbox[s],
                                        ChannelMessage(b, t, "proxy"))]_vars

\* a POST broadcast reached two connections of one channel, one whose
\* `connection` mediation and one whose `message` mediation is still pending
C21_Witness ==
    \E s \in Sockets, u \in Sockets :
        /\ pending[s] = {1} /\ pending[u] = {2}
        /\ channelOf[s] = channelOf[u]
        /\ Has(inbox[s], "proxy") /\ Has(inbox[u], "proxy")

\* the entries a step appends to the inbox of s
Appended(s) ==
    {inbox'[s][i] : i \in (Len(inbox[s]) + 1)..Len(inbox'[s])}

\* the ChannelMessages the mediator's replies hold
MediatorMessages == {MsgM, MsgA, MsgB}

\* C22: every message appended to an inbox, mediator-supplied ones included,
\* carries the clock reading of the step that sends it.
C22_TimestampFresh ==
    [][\A s \in Sockets :
          \A m \in Appended(s) : m.timestamp = now']_vars

\* C22 as amended: a message the server builds (welcome, default broadcast,
\* ingestion broadcast) carries the clock reading of the step that sends it;
\* a step that settles a mediation appends only messages of the mediator's
\* reply, unchanged, timestamp included.
C22_ServerTimestampFresh ==
    [][\A s \in Sockets :
          \A m \in Appended(s) :
             IF pending' = pending
             THEN m.timestamp = now' /\ m \notin MediatorMessages
             ELSE m \in MediatorMessages]_vars

\* a connection received an ingestion broadcast stamped 1 and then a
\* mediator-supplied message still stamped 0
C22_Witness ==
    \E s \in Sockets :
        inbox[s] = <<ChannelMessage("b1", 1, "proxy"), MsgM>>

\* C23: for every connection the number of HTTP requests made to the
\* mediator equals the number of payloads dispatched for it, however the
\* requests ended; with no mediator configured there is none.
C23_OnePostPerDispatch ==
    \A s \in Sockets :
       /\ fetches[s] = Len(dispatched[s])
       /\ ~proxy => fetches[s] = 0

\* a connection's three payloads were dispatched, its two awaited mediations
\* settled and nothing was delivered to it: one request each
C23_Witness ==
    \E s \in Sockets :
        /\ Len(dispatched[s]) = 3 /\ fetches[s] = 3
        /\ dispatched[s][3].event = "disconnect"
        /\ pending[s] = {} /\ answered[s] = 0 /\ ~dropped[s]

\* C24: at every moment the room of channel X holds exactly the accepted,
\* not yet disconnected connections whose tag is X, and a step changes a
\* room only if it accepts a connection or closes one.
C24_MembershipFrame ==
    /\ [](\A c \in Channels : rooms[c] = Members(c))
    /\ [][rooms' # rooms =>
             \E s \in Sockets :
                \/ conn[s] = "none" /\ conn'[s] = "open"
                \/ conn[s] = "open" /\ conn'[s] = "closed"]_vars

\* in mediated mode both connections are members of one channel after an
\* inbound message whose mediation settled and an acknowledged POST
C24_Witness ==
    \E c \in Channels, s \in Sockets :
        /\ proxy /\ rooms[c] = Sockets
        /\ \A u \in Sockets : pending[u] = {}
        /\ Len(dispatched[s]) = 2 /\ res.status = 200

\* C25: once a connection is closed nothing is delivered to it and nothing
\* is emitted to it: a reply that settles after the close leads to no
\* socket.emit.
C25_NoEmitAfterClose ==
    [][\A s \in Sockets :
          conn[s] = "closed" =>
             inbox'[s] = inbox[s] /\ dropped'[s] = dropped[s]]_vars

\* C26: in mediated mode the payloads dispatched for an accepted connection
\* are one `connection` payload, then `message` payloads, then at most one
\* `disconnect` payload, last; and a payload after the first (a `message`
\* one in particular) is dispatched only once the `connection` mediation has
\* settled.
C26_LifecycleOrder ==
    /\ [](\A s \in Sockets :
            /\ proxy /\ conn[s] # "none" /\ channelOf[s] \in Channels =>
                  dispatched[s] # <<>>
            /\ \A i \in DOMAIN dispatched[s] :
                  /\ dispatched[s][i].event = "connection" <=> i = 1
                  /\ dispatched[s][i].event = "disconnect" =>
                        i = Len(dispatched[s]) /\ conn[s] = "closed")
    /\ [][\A s \in Sockets :
             Len(dispatched'[s]) > Len(dispatched[s]) /\ dispatched[s] # <<>>
               => 1 \notin pending[s]]_vars

\* a connection went through its whole life: connection, two messages,
\* disconnect
C26_Witness ==
    \E s \in Sockets :
        /\ Len(dispatched[s]) = 4
        /\ dispatched[s][2].event = "message"
        /\ dispatched[s][3].event = "message"
        /\ dispatched[s][4].event = "disconnect"

\* C27: with no mediator, a connection is welcomed in the step that joins it
\* to its room: a member's inbox is never empty and the first message of any
\* inbox is the welcome to its channel.
C27_WelcomeFirst ==
    ~proxy =>
      \A s \in Sockets :
         /\ (\E c \in Channels : s \in rooms[c]) => inbox[s] # <<>>
         /\ inbox[s] # <<>> =>
               /\ inbox[s][1].sender = "system"
               /\ inbox[s][1].data = WelcomeText(channelOf[s])

\* a connection joined a channel between a message of the other member and
\* a POST: it holds its welcome, then the POST broadcast; the other member
\* holds its welcome, its own message, then the POST broadcast
C27_Witness ==
    \E s \in Sockets, u \in Sockets :
        /\ ~proxy /\ channelOf[s] = channelOf[u]
        /\ Len(inbox[u]) = 3 /\ inbox[u][2].sender = u
        /\ inbox[u][3].sender = "proxy"
        /\ Len(inbox[s]) = 2 /\ inbox[s][2].sender = "proxy"

====
